---- MODULE Spec2Model ----
(***************************************************************************)
(* Price tracker: product identity store (db_manager.py), collection run   *)
(* (collector.py, bunnings_scraper.py) and URL health check                *)
(* (url_monitor.py).                                                       *)
(*                                                                         *)
(* Text values (names, SKUs, URLs, categories, units) are sequences of     *)
(* string tokens.  None is the empty sequence; Python's None and "" are    *)
(* both falsy in every guard of the code, and one falsy value stands for   *)
(* both.  A URL is <<slug, digits>>: digits is the run of digits after     *)
(* "_p" in the URL, "" when the URL has no such part.                      *)
(***************************************************************************)
EXTENDS Integers, Sequences, FiniteSets, TLC

\* ------------------------------------------------------------- bounds
MaxClock == 3
MaxProducts == 2
MaxPrices == 2
MaxUrls == 2

MaxTime == 32
MaxObservations == 4
MaxText == 4

\* ---------------------------------------------------------- constants
\* Times of the scraper, in half seconds: scrape_delay=3, time.sleep(5)
\* between attempts, time.sleep(2) after a load without a selector.
scrape_delay == 6
retry_wait == 10
default_wait == 4
default_max_retries == 3
Jitters == {1, 2}

StatusOK == 200
StatusNotFound == 404
OtherStatuses == {500}

None == <<>>
Marker == "[DISCONTINUED]"
NoId == 0

Truthy(x) == x # None

Or(x, default) == IF Truthy(x) THEN x ELSE default

\* ------------------------------------------------------------- inputs
Names == {<<"A">>, <<"B">>}
Categories == {<<"Timber">>}
Units == {<<"sheet">>}
Uncategorized == <<"Uncategorized">>
Each == <<"each">>
Unknown == <<"unknown">>
Bunnings == <<"Bunnings">>
U1 == <<"ecoply", "101">>
U1b == <<"ecoply-structural", "101">>
U0 == <<"promo", "">>
Urls == {U1, U1b, U0}
InputUrls == {U1, U0}
Skus == {<<"101">>}
PriceValues == {10, 12}

VARIABLES
    suppliers,   \* table suppliers: sequence of names, id = index
    products,    \* table products: id -> row
    prices,      \* table price_history: id -> row
    clock,       \* the time: datetime.now(), one tick per operation on the store
    call,        \* the operation performed last, its arguments and result
    cPc,         \* collect_products: "idle" | "running"
    cUrls,       \* collect_products: product_urls
    cIdx,        \* collect_products: items processed so far
    stats,       \* collect_products: stats
    cLog,        \* collect_products: per processed item, <<url, what happened>>
    hPc,         \* run_url_health_check: "idle" | "running"
    hList,       \* run_url_health_check: products (ids, as loaded)
    hSnap,       \* monitor session: rows as loaded by get_all_products
    hStale,      \* monitor session: rows not expired since they were loaded
    hIdx,        \* run_url_health_check: products checked so far
    results,     \* run_url_health_check: results
    limiter,     \* scraper: time.time() and self.last_request_time
    loader       \* scraper: the call of _get_page_content in progress, or the last

storeVars == <<suppliers, products, prices>>
collectVars == <<cPc, cUrls, cIdx, stats, cLog>>
healthVars == <<hPc, hList, hSnap, hStale, hIdx, results>>
scraperVars == <<limiter, loader>>
vars == <<suppliers, products, prices, clock, call, cPc, cUrls, cIdx, stats,
          cLog, hPc, hList, hSnap, hStale, hIdx, results, limiter, loader>>

\* ------------------------------------------------------------- helpers
Max(S) == CHOOSE x \in S : \A y \in S : y <= x

Min(S) == CHOOSE x \in S : \A y \in S : x <= y

\* An INTEGER PRIMARY KEY without AUTOINCREMENT: largest id in the table + 1.
NextId(ids) == IF ids = {} THEN 1 ELSE Max(ids) + 1

Put(f, k, v) == [x \in DOMAIN f \cup {k} |-> IF x = k THEN v ELSE f[x]]

Drop(f, S) == [x \in DOMAIN f \ S |-> f[x]]

\* ------------------------------------------------ suppliers (db_manager)
SupplierId(sups, name) ==
    IF \E i \in 1..Len(sups) : sups[i] = name
    THEN Min({i \in 1..Len(sups) : sups[i] = name})
    ELSE NoId

get_or_create_supplier(sups, name) ==
    IF SupplierId(sups, name) = NoId THEN Append(sups, name) ELSE sups

\* ------------------------------------------------- products (db_manager)
\* session.query(ProductInfo).filter_by(sku=sku, supplier_id=supplier_id).first()
FindProduct_bySkuOnly(prods, sku, supplier_id) ==
    LET hits == {i \in DOMAIN prods : prods[i].sku = sku}
    IN  IF hits = {} THEN NoId ELSE Min(hits)

FindProduct(prods, sku, supplier_id) ==
    LET hits == {i \in DOMAIN prods :
                    prods[i].sku = sku /\ prods[i].supplier_id = supplier_id}
    IN  IF hits = {} THEN NoId ELSE Min(hits)

\* The row constraints checked when the INSERT is flushed: name is NOT NULL,
\* ix_supplier_sku is unique.
InsertAllowed(prods, row) ==
    /\ row.name # None
    /\ \A i \in DOMAIN prods :
          ~(prods[i].sku = row.sku /\ prods[i].supplier_id = row.supplier_id)

NewProduct(sku, supplier_id, name, category, unit, product_url, now) ==
    [sku |-> sku, name |-> name, supplier_id |-> supplier_id,
     category |-> category, unit |-> unit, product_url |-> product_url,
     last_updated |-> now]

\* The else branch of get_or_create_product_by_sku: the row after the checks.
UpdateInfo_alwaysStamped(p, name, category, unit, product_url, now) ==
    LET n == IF Truthy(name) /\ p.name # name THEN name ELSE p.name
        u == IF Truthy(product_url) /\ p.product_url # product_url
             THEN product_url ELSE p.product_url
        c == IF Truthy(category) /\ p.category # category
             THEN category ELSE p.category
    IN  [p EXCEPT !.name = n, !.product_url = u, !.category = c, !.last_updated = now]

UpdateInfo_neverStamped(p, name, category, unit, product_url, now) ==
    LET n == IF Truthy(name) /\ p.name # name THEN name ELSE p.name
        u == IF Truthy(product_url) /\ p.product_url # product_url
             THEN product_url ELSE p.product_url
        c == IF Truthy(category) /\ p.category # category
             THEN category ELSE p.category
    IN  [p EXCEPT !.name = n, !.product_url = u, !.category = c]

UpdateInfo(p, name, category, unit, product_url, now) ==
    LET n == IF Truthy(name) /\ p.name # name THEN name ELSE p.name
        u == IF Truthy(product_url) /\ p.product_url # product_url
             THEN product_url ELSE p.product_url
        c == IF Truthy(category) /\ p.category # category
             THEN category ELSE p.category
        updated == n # p.name \/ u # p.product_url \/ c # p.category
    IN  [p EXCEPT !.name = n, !.product_url = u, !.category = c,
                  !.last_updated = IF updated THEN now ELSE @]

\* Result: the table afterwards, the id of the row returned (NoId when the
\* call raised), and whether a commit was issued.
get_or_create_product_by_sku_newRowForUnknown(prods, sku, supplier_id, name, category, unit, product_url, now) ==
    LET pid == IF sku = Unknown THEN NoId ELSE FindProduct(prods, sku, supplier_id)
        row == NewProduct(sku, supplier_id, name, category, unit, product_url, now)
    IN  IF pid = NoId
        THEN [products |-> Put(prods, NextId(DOMAIN prods), row),
              ret |-> NextId(DOMAIN prods), committed |-> TRUE]
        ELSE LET q == UpdateInfo(prods[pid], name, category, unit, product_url, now)
             IN  [products |-> [prods EXCEPT ![pid] = q], ret |-> pid,
                  committed |-> q # prods[pid]]

get_or_create_product_by_sku(prods, sku, supplier_id, name, category, unit, product_url, now) ==
    LET pid == FindProduct(prods, sku, supplier_id)
        row == NewProduct(sku, supplier_id, name, category, unit, product_url, now)
    IN  IF pid = NoId
        THEN IF InsertAllowed(prods, row)
             THEN [products |-> Put(prods, NextId(DOMAIN prods), row),
                   ret |-> NextId(DOMAIN prods), committed |-> TRUE]
             ELSE [products |-> prods, ret |-> NoId, committed |-> FALSE]
        ELSE LET q == UpdateInfo(prods[pid], name, category, unit, product_url, now)
             IN  [products |-> [prods EXCEPT ![pid] = q], ret |-> pid,
                  committed |-> q # prods[pid]]

\* --------------------------------------------------- prices (db_manager)
NewPrice(product_id, supplier_id, price, in_stock, now) ==
    [product_id |-> product_id, supplier_id |-> supplier_id, price |-> price,
     in_stock |-> in_stock, scraped_at |-> now]

save_price_overwriteLatest(prs, product_id, supplier_id, price, in_stock, now) ==
    LET own == {i \in DOMAIN prs : prs[i].product_id = product_id}
    IN  IF own = {}
        THEN Put(prs, NextId(DOMAIN prs),
                 NewPrice(product_id, supplier_id, price, in_stock, now))
        ELSE [prs EXCEPT ![Max(own)] =
                 NewPrice(product_id, supplier_id, price, in_stock, now)]

save_price(prs, product_id, supplier_id, price, in_stock, now) ==
    Put(prs, NextId(DOMAIN prs),
        NewPrice(product_id, supplier_id, price, in_stock, now))

\* Query.update({'product_id': keep_id}) on the rows of merge_id.
Repoint(prs, keep_id, merge_id) ==
    [i \in DOMAIN prs |->
        IF prs[i].product_id = merge_id
        THEN [prs[i] EXCEPT !.product_id = keep_id] ELSE prs[i]]

\* session.delete(product_to_delete): the row, and by the cascade
\* 'all, delete-orphan' of ProductInfo.prices every price row that refers to
\* it when the delete is flushed.
DeleteProduct(prods, prs, id) ==
    IF id \in DOMAIN prods
    THEN [products |-> Drop(prods, {id}),
          prices |-> Drop(prs, {i \in DOMAIN prs : prs[i].product_id = id})]
    ELSE [products |-> prods, prices |-> prs]

merge_duplicate_products(prods, prs, keep_id, merge_id) ==
    DeleteProduct(prods, Repoint(prs, keep_id, merge_id), merge_id)

\* save_product_from_scraper.  failAt is the call in which the database raises
\* ("none": no call does); what was committed before it stays, the rest is
\* rolled back and the method returns False.
FailPoints == {"none", "supplier", "product", "price"}

save_product_from_scraper(sups, prods, prs, data, failAt, now) ==
    LET sups1 == get_or_create_supplier(sups, data.supplier)
        sid == SupplierId(sups1, data.supplier)
        r == get_or_create_product_by_sku(prods, data.sku, sid, data.name,
                 data.category, data.unit, data.url, now)
        prs1 == save_price(prs, r.ret, sid, data.price, data.in_stock, now)
    IN  IF failAt = "supplier"
        THEN [suppliers |-> sups, products |-> prods, prices |-> prs,
              ok |-> FALSE, ret |-> NoId]
        ELSE IF failAt = "product" \/ r.ret = NoId
        THEN [suppliers |-> sups1, products |-> prods, prices |-> prs,
              ok |-> FALSE, ret |-> NoId]
        ELSE IF failAt = "price"
        THEN [suppliers |-> sups1, products |-> r.products, prices |-> prs,
              ok |-> FALSE, ret |-> r.ret]
        ELSE [suppliers |-> sups1, products |-> r.products, prices |-> prs1,
              ok |-> TRUE, ret |-> r.ret]

\* -------------------------------------------------- queries (db_manager)
RECURSIVE Ascending(_)
Ascending(S) == IF S = {} THEN <<>> ELSE <<Min(S)>> \o Ascending(S \ {Min(S)})

\* self.db.get_all_products()
get_all_products(prods) == Ascending(DOMAIN prods)

\* The clock of the queries counts days.  Of the rows S, the one that
\* ORDER BY scraped_at DESC puts first.
Newest_oldest(prs, S) ==
    CHOOSE i \in S : \A j \in S :
        \/ prs[i].scraped_at < prs[j].scraped_at
        \/ prs[i].scraped_at = prs[j].scraped_at /\ i <= j

Newest(prs, S) ==
    CHOOSE i \in S : \A j \in S :
        \/ prs[j].scraped_at < prs[i].scraped_at
        \/ prs[j].scraped_at = prs[i].scraped_at /\ j <= i

\* ORDER BY scraped_at DESC over the rows S, the first n rows (all: n = -1).
RECURSIVE Descending(_, _, _)
Descending(prs, S, n) ==
    IF S = {} \/ n = 0 THEN <<>>
    ELSE <<Newest(prs, S)>> \o Descending(prs, S \ {Newest(prs, S)}, n - 1)

Reverse(q) == [i \in 1..Len(q) |-> q[Len(q) + 1 - i]]

\* filter(product_id == ..., scraped_at >= cutoff_date)
Window(prs, product_id, cutoff_date) ==
    {i \in DOMAIN prs : prs[i].product_id = product_id
                         /\ prs[i].scraped_at >= cutoff_date}

\* The id of the row returned, NoId for None.
get_latest_price(prs, product_id) ==
    LET rows == Descending(prs, {i \in DOMAIN prs : prs[i].product_id = product_id}, 1)
    IN  IF rows = <<>> THEN NoId ELSE rows[1]

\* The ids of the rows returned.
get_price_history(prs, product_id, days, now) ==
    Reverse(Descending(prs, Window(prs, product_id, now - days), -1))

\* .order_by(PriceHistory.scraped_at.desc()).limit(2).all()
TwoLatest_newestAndOldest(prs, product_id, cutoff_date) ==
    LET all == Descending(prs, Window(prs, product_id, cutoff_date), -1)
    IN  IF Len(all) >= 2 THEN <<all[1], all[Len(all)]>> ELSE all

TwoLatest(prs, product_id, cutoff_date) ==
    Descending(prs, Window(prs, product_id, cutoff_date), 2)

Abs(x) == IF x < 0 THEN 0 - x ELSE x

ChangeOf_previousMinusLatest(prods, prs, id, cutoff_date) ==
    LET two == TwoLatest(prs, id, cutoff_date)
        latest == prs[two[1]]
        previous == prs[two[2]]
        change_amount == previous.price - latest.price
    IN  IF Len(two) < 2 THEN [kind |-> "skip"]
        ELSE IF latest.price = previous.price THEN [kind |-> "skip"]
        ELSE IF previous.price = 0 THEN [kind |-> "raise"]
        ELSE [kind |-> "change",
              product_id |-> id,
              sku |-> prods[id].sku,
              name |-> prods[id].name,
              previous_price |-> previous.price,
              current_price |-> latest.price,
              change_amount |-> change_amount,
              change_percent |-> [num |-> change_amount, den |-> previous.price],
              previous_date |-> previous.scraped_at,
              current_date |-> latest.scraped_at]

\* What one pass of the loop of get_price_changes does for product id: "skip"
\* (nothing appended), "raise" (ZeroDivisionError: a float divided by 0.0),
\* or the dict appended.  change_percent is the quotient num / den times 100.
ChangeOf(prods, prs, id, cutoff_date) ==
    LET two == TwoLatest(prs, id, cutoff_date)
        latest == prs[two[1]]
        previous == prs[two[2]]
        change_amount == latest.price - previous.price
    IN  IF Len(two) < 2 THEN [kind |-> "skip"]
        ELSE IF latest.price = previous.price THEN [kind |-> "skip"]
        ELSE IF previous.price = 0 THEN [kind |-> "raise"]
        ELSE [kind |-> "change",
              product_id |-> id,
              sku |-> prods[id].sku,
              name |-> prods[id].name,
              previous_price |-> previous.price,
              current_price |-> latest.price,
              change_amount |-> change_amount,
              change_percent |-> [num |-> change_amount, den |-> previous.price],
              previous_date |-> previous.scraped_at,
              current_date |-> latest.scraped_at]

\* list.sort(key=abs(change_amount), reverse=True): stable.
RECURSIVE InsertByChange_signed(_, _)
InsertByChange_signed(sorted, r) ==
    IF sorted = <<>> THEN <<r>>
    ELSE IF sorted[1].change_amount >= r.change_amount
    THEN <<sorted[1]>> \o InsertByChange_signed(Tail(sorted), r)
    ELSE <<r>> \o sorted

RECURSIVE InsertByChange(_, _)
InsertByChange(sorted, r) ==
    IF sorted = <<>> THEN <<r>>
    ELSE IF Abs(sorted[1].change_amount) >= Abs(r.change_amount)
    THEN <<sorted[1]>> \o InsertByChange(Tail(sorted), r)
    ELSE <<r>> \o sorted

RECURSIVE SortByChange(_)
SortByChange(recs) ==
    IF recs = <<>> THEN <<>>
    ELSE InsertByChange(SortByChange(SubSeq(recs, 1, Len(recs) - 1)), recs[Len(recs)])

\* The records appended for the products ids, in that order.
RECURSIVE Appended(_, _, _, _)
Appended(prods, prs, ids, cutoff_date) ==
    IF ids = <<>> THEN <<>>
    ELSE LET c == ChangeOf(prods, prs, ids[1], cutoff_date)
             rest == Appended(prods, prs, Tail(ids), cutoff_date)
         IN  IF c.kind = "change" THEN <<c>> \o rest ELSE rest

\* raised: the call ended in an exception and returned nothing.
get_price_changes(prods, prs, days, now) ==
    LET ids == get_all_products(prods)
        cutoff_date == now - days
    IN  IF \E k \in 1..Len(ids) : ChangeOf(prods, prs, ids[k], cutoff_date).kind = "raise"
        THEN [raised |-> TRUE, results |-> <<>>]
        ELSE [raised |-> FALSE,
              results |-> SortByChange(Appended(prods, prs, ids, cutoff_date))]

\* find_duplicate_products: one dict for each sku that GROUP BY sku counts
\* more than once, holding the ids of the rows with that sku.
find_duplicate_products(prods) ==
    LET count(sku) == Cardinality({id \in DOMAIN prods : prods[id].sku = sku})
        duplicates == {sku \in {prods[id].sku : id \in DOMAIN prods} : count(sku) > 1}
    IN  {[sku |-> sku, count |-> count(sku),
          products |-> {id \in DOMAIN prods : prods[id].sku = sku}] : sku \in duplicates}

\* ProductInfo.name.like(pattern).  Texts are sequences of characters here.
\* nocase: the backend compares ASCII letters without regard to case, as
\* SQLite's LIKE does by default; % and _ are wildcards in every backend.
UpperCase ==
    <<"A", "B", "C", "D", "E", "F", "G", "H", "I", "J", "K", "L", "M",
      "N", "O", "P", "Q", "R", "S", "T", "U", "V", "W", "X", "Y", "Z">>

LowerCase ==
    <<"a", "b", "c", "d", "e", "f", "g", "h", "i", "j", "k", "l", "m",
      "n", "o", "p", "q", "r", "s", "t", "u", "v", "w", "x", "y", "z">>

lower(c) ==
    IF \E i \in 1..Len(UpperCase) : UpperCase[i] = c
    THEN LowerCase[CHOOSE i \in 1..Len(UpperCase) : UpperCase[i] = c]
    ELSE c

RECURSIVE like(_, _, _)
like(text, pattern, nocase) ==
    IF pattern = <<>> THEN text = <<>>
    ELSE IF pattern[1] = "%"
    THEN \/ like(text, Tail(pattern), nocase)
         \/ text # <<>> /\ like(Tail(text), pattern, nocase)
    ELSE IF text = <<>> THEN FALSE
    ELSE IF pattern[1] = "_" THEN like(Tail(text), Tail(pattern), nocase)
    ELSE /\ IF nocase THEN lower(text[1]) = lower(pattern[1])
            ELSE text[1] = pattern[1]
         /\ like(Tail(text), Tail(pattern), nocase)

\* results.sort(key=lambda x: x['price']): stable.
RECURSIVE InsertByPrice(_, _)
InsertByPrice(sorted, r) ==
    IF sorted = <<>> THEN <<r>>
    ELSE IF sorted[1].price <= r.price
    THEN <<sorted[1]>> \o InsertByPrice(Tail(sorted), r)
    ELSE <<r>> \o sorted

RECURSIVE SortByPrice(_)
SortByPrice(recs) ==
    IF recs = <<>> THEN <<>>
    ELSE InsertByPrice(SortByPrice(SubSeq(recs, 1, Len(recs) - 1)), recs[Len(recs)])

\* The dicts appended for the products ids, in that order.
RECURSIVE Compared(_, _, _, _)
Compared(sups, prods, prs, ids) ==
    IF ids = <<>> THEN <<>>
    ELSE LET product == prods[ids[1]]
             latest_price == get_latest_price(prs, ids[1])
             rest == Compared(sups, prods, prs, Tail(ids))
         IN  IF latest_price # NoId
             THEN <<[product_name |-> product.name,
                     sku |-> product.sku,
                     supplier |-> sups[product.supplier_id],
                     price |-> prs[latest_price].price,
                     in_stock |-> prs[latest_price].in_stock,
                     url |-> product.product_url,
                     scraped_at |-> prs[latest_price].scraped_at]>> \o rest
             ELSE rest

get_price_comparison(sups, prods, prs, product_name_pattern, nocase) ==
    LET matching == {id \in DOMAIN prods :
                        like(prods[id].name, <<"%">> \o product_name_pattern \o <<"%">>,
                             nocase)}
    IN  SortByPrice(Compared(sups, prods, prs, Ascending(matching)))

\* ------------------------------------------- scraper (bunnings_scraper)
\* A page is what the _extract_* methods find in it.
Page(name, price, page_sku, category, unit, in_stock) ==
    [name |-> name, price |-> price, page_sku |-> page_sku, category |-> category,
     unit |-> unit, in_stock |-> in_stock]

FullPage == Page(<<"A">>, 10, None, <<"Timber">>, <<"sheet">>, TRUE)

\* The full page; renamed and repriced; without breadcrumbs; without unit and
\* out of stock, the SKU on the page; without a name.
Pages ==
    {FullPage,
     Page(<<"B">>, 12, None, <<"Timber">>, <<"sheet">>, TRUE),
     Page(<<"A">>, 10, None, None, <<"sheet">>, TRUE),
     Page(<<"A">>, 10, <<"102">>, <<"Timber">>, None, FALSE),
     Page(None, 10, None, <<"Timber">>, <<"sheet">>, TRUE)}

\* re.search(r'_p(\d+)', url)
extract_sku_from_url(url) == IF url[2] # "" THEN <<url[2]>> ELSE None

\* The set holding the Product returned, empty when scrape_product returns None.
\* fetch: "ok" (_get_page_content returned the HTML), "failed" (it returned
\* None), "parse_error" (an extractor raised inside the try block).
scrape_product_defaultName(product_url, fetch, page) ==
    IF fetch # "ok" THEN {}
    ELSE {[name |-> Or(page.name, Unknown),
           sku |-> Or(Or(extract_sku_from_url(product_url), page.page_sku), Unknown),
           price |-> page.price,
           url |-> product_url,
           supplier |-> Bunnings,
           category |-> Or(page.category, Uncategorized),
           in_stock |-> page.in_stock,
           unit |-> Or(Or(page.unit, Each), Each)]}

scrape_product(product_url, fetch, page) ==
    IF fetch # "ok" THEN {}
    ELSE IF ~Truthy(page.name) THEN {}
    ELSE {[name |-> page.name,
           sku |-> Or(Or(extract_sku_from_url(product_url), page.page_sku), Unknown),
           price |-> page.price,
           url |-> product_url,
           supplier |-> Bunnings,
           category |-> Or(page.category, Uncategorized),
           in_stock |-> page.in_stock,
           unit |-> Or(Or(page.unit, Each), Each)]}

\* --------------------------- extractors (bunnings_scraper, base_scraper)
\* Texts are sequences of characters here.  elements[i] is what
\* soup.select_one returns for the i-th selector of a method's list: no
\* element, or an element with its content attribute (<<>> when it has
\* none) and its text.
description_limit == 500

Whitespace == {" ", "\n"}

Digit ==
    ("0" :> 0) @@ ("1" :> 1) @@ ("2" :> 2) @@ ("3" :> 3) @@ ("4" :> 4) @@
    ("5" :> 5) @@ ("6" :> 6) @@ ("7" :> 7) @@ ("8" :> 8) @@ ("9" :> 9)

IsDigit(c) == c \in DOMAIN Digit

IsDigitOrDot(c) == IsDigit(c) \/ c = "."

RECURSIVE lstrip(_)
lstrip(text) ==
    IF text # <<>> /\ text[1] \in Whitespace THEN lstrip(Tail(text)) ELSE text

RECURSIVE rstrip(_)
rstrip(text) ==
    IF text # <<>> /\ text[Len(text)] \in Whitespace
    THEN rstrip(SubSeq(text, 1, Len(text) - 1))
    ELSE text

\* str.strip()
strip(text) == rstrip(lstrip(text))

\* ' '.join(text.split()) of a text without whitespace at its ends.
RECURSIVE JoinSplit(_)
JoinSplit(text) ==
    IF text = <<>> THEN <<>>
    ELSE IF text[1] \in Whitespace THEN <<" ">> \o JoinSplit(lstrip(text))
    ELSE <<text[1]>> \o JoinSplit(Tail(text))

clean_text(text) == IF text = <<>> THEN <<>> ELSE JoinSplit(strip(text))

RECURSIVE IntOf(_)
IntOf(digits) ==
    IF digits = <<>> THEN 0
    ELSE IntOf(SubSeq(digits, 1, Len(digits) - 1)) * 10 + Digit[digits[Len(digits)]]

RECURSIVE Pow10(_)
Pow10(n) == IF n = 0 THEN 1 ELSE 10 * Pow10(n - 1)

\* A float is the quotient num / den, den a power of ten, in lowest such terms.
RECURSIVE Float(_, _)
Float(num, den) ==
    IF den > 1 /\ num % 10 = 0 THEN Float(num \div 10, den \div 10)
    ELSE [num |-> num, den |-> den]

Zero == Float(0, 1)

\* float(cleaned): raises ValueError unless cleaned holds a digit and at most
\* one point.
to_float(cleaned) ==
    LET dots == {i \in 1..Len(cleaned) : cleaned[i] = "."}
        digits == SelectSeq(cleaned, IsDigit)
    IN  IF Cardinality(dots) > 1 \/ digits = <<>>
        THEN [raised |-> TRUE, value |-> Zero]
        ELSE [raised |-> FALSE,
              value |-> Float(IntOf(digits),
                              IF dots = {} THEN 1 ELSE Pow10(Len(cleaned) - Min(dots)))]

clean_price_digitsOnly(price_text) ==
    LET cleaned == SelectSeq(price_text, IsDigit)
        parsed == to_float(cleaned)
    IN  IF parsed.raised THEN Zero ELSE parsed.value

\* The except branch returns 0.0.
clean_price(price_text) ==
    LET cleaned == SelectSeq(price_text, IsDigitOrDot)
        parsed == to_float(cleaned)
    IN  IF parsed.raised THEN Zero ELSE parsed.value

NoElement == [found |-> FALSE, content |-> <<>>, text |-> <<>>]

Element(content, text) == [found |-> TRUE, content |-> content, text |-> text]

extract_product_name(elements) ==
    LET hits == {i \in 1..Len(elements) :
                    elements[i].found /\ strip(elements[i].text) # <<>>}
    IN  IF hits # {} THEN clean_text(elements[Min(hits)].text) ELSE None

\* element.get('content') or element.text
price_text(element) ==
    IF element.content # <<>> THEN element.content ELSE element.text

\* 0.01 <= price <= 100000
Reasonable(price) == price.num * 100 >= price.den /\ price.num <= 100000 * price.den

\* matches is what re.findall(price_pattern, text) finds in the page's text.
extract_price(elements, matches) ==
    LET hits == {i \in 1..Len(elements) :
                    /\ elements[i].found
                    /\ price_text(elements[i]) # <<>>
                    /\ clean_price(price_text(elements[i])).num > 0}
        reasonable == {k \in 1..Len(matches) : Reasonable(clean_price(matches[k]))}
    IN  IF hits # {} THEN clean_price(price_text(elements[Min(hits)]))
        ELSE IF reasonable # {} THEN clean_price(matches[Min(reasonable)])
        ELSE Zero

\* re.search(r'\d+', text).group(0), <<>> when there is no match.
search_digits(text) ==
    LET starts == {i \in 1..Len(text) : IsDigit(text[i])}
    IN  IF starts = {} THEN <<>>
        ELSE LET first == Min(starts)
                 last == Min({j \in first..Len(text) :
                                 j = Len(text) \/ ~IsDigit(text[j + 1])})
             IN  SubSeq(text, first, last)

extract_sku_from_page(elements) ==
    LET hits == {i \in 1..Len(elements) :
                    elements[i].found /\ search_digits(strip(elements[i].text)) # <<>>}
    IN  IF hits # {} THEN search_digits(strip(elements[Min(hits)].text)) ELSE None

default_unit == <<"e", "a", "c", "h">>

extract_unit(elements) ==
    LET hits == {i \in 1..Len(elements) : elements[i].found}
    IN  IF hits # {} THEN clean_text(elements[Min(hits)].text) ELSE default_unit

extract_brand(elements) ==
    LET hits == {i \in 1..Len(elements) : elements[i].found}
    IN  IF hits # {} THEN clean_text(elements[Min(hits)].text) ELSE None

\* desc[:500] if len(desc) > 500 else desc
Limited(desc) ==
    IF Len(desc) > description_limit THEN SubSeq(desc, 1, description_limit) ELSE desc

extract_description(elements) ==
    LET hits == {i \in 1..Len(elements) : elements[i].found}
    IN  IF hits # {} THEN Limited(clean_text(elements[Min(hits)].text)) ELSE None

\* The number of selectors each method tries.
Selectors == [name |-> 5, price |-> 5, sku |-> 3, unit |-> 3, brand |-> 3,
              description |-> 3]

extract(field, elements, matches) ==
    CASE field = "name" -> extract_product_name(elements)
      [] field = "price" -> extract_price(elements, matches)
      [] field = "sku" -> extract_sku_from_page(elements)
      [] field = "unit" -> extract_unit(elements)
      [] field = "brand" -> extract_brand(elements)
      [] field = "description" -> extract_description(elements)

\* ------------------------------------- rate limit and page load (scraper)
\* Time is counted in half seconds.  last_request_time is 0 until the first
\* grant; time.time() is then far more than scrape_delay after 0, and every
\* such value takes the same branch.
NoRequest == [now |-> scrape_delay, last_request_time |-> 0]

\* _respect_rate_limit; jitter is random.uniform(0.5, 1.5) and oversleep is
\* what time.sleep sleeps beyond what was asked.
respect_rate_limit(lim, jitter, oversleep) ==
    LET time_since_last_request == lim.now - lim.last_request_time
        sleep_time == IF time_since_last_request < scrape_delay
                      THEN (scrape_delay - time_since_last_request) + jitter + oversleep
                      ELSE 0
    IN  [now |-> lim.now + sleep_time, last_request_time |-> lim.now + sleep_time]

NoLoad == [pc |-> "idle", max_retries |-> 0, wait_for_selector |-> FALSE,
           attempt |-> 0, attempts |-> 0, failures |-> 0, sleeps |-> 0,
           selector_timeouts |-> 0, ret |-> "pending"]

\* An except branch of the loop of _get_page_content: sleep and go on to the
\* next attempt, or return None after the last.
AfterFailure_sleepsAfterLast(l) ==
    IF l.attempt < l.max_retries - 1
    THEN [l EXCEPT !.attempts = @ + 1, !.failures = @ + 1, !.sleeps = @ + 1,
                   !.attempt = @ + 1]
    ELSE [l EXCEPT !.attempts = @ + 1, !.failures = @ + 1, !.sleeps = @ + 1,
                   !.pc = "idle", !.ret = "none"]

AfterFailure(l) ==
    IF l.attempt < l.max_retries - 1
    THEN [l EXCEPT !.attempts = @ + 1, !.failures = @ + 1, !.sleeps = @ + 1,
                   !.attempt = @ + 1]
    ELSE [l EXCEPT !.attempts = @ + 1, !.failures = @ + 1,
                   !.pc = "idle", !.ret = "none"]

\* The try block of the loop when page.goto and page.content succeed;
\* selector_timeout: page.wait_for_selector raised PlaywrightTimeout.
AfterLoad(l, selector_timeout) ==
    [l EXCEPT !.attempts = @ + 1,
              !.selector_timeouts = IF l.wait_for_selector /\ selector_timeout
                                    THEN @ + 1 ELSE @,
              !.pc = "idle", !.ret = "html"]

\* Time slept in one pass of the loop, which takes the call from l to l2:
\* time.sleep(2) after a load without a selector, time.sleep(5) before a retry.
Waited(l, l2, outcome) ==
    IF outcome = "loaded"
    THEN IF l.wait_for_selector THEN 0 ELSE default_wait
    ELSE retry_wait * (l2.sleeps - l.sleeps)

\* Time passes: between calls, and while a page loads.
Elapse ==
    /\ limiter.now < MaxTime
    /\ limiter' = [limiter EXCEPT !.now = @ + 1]
    /\ call' = [op |-> "elapse"]
    /\ UNCHANGED <<storeVars, clock, collectVars, healthVars, loader>>

\* _get_page_content up to the loop.
LoadStart(wait_for_selector, max_retries, jitter, oversleep) ==
    /\ loader.pc = "idle"
    /\ max_retries > 0
    /\ LET lim == respect_rate_limit(limiter, jitter, oversleep)
       IN  /\ lim.now <= MaxTime
           /\ limiter' = lim
           /\ call' = [op |-> "load_start",
                       first |-> (limiter.last_request_time = 0),
                       slept |-> lim.now - limiter.now]
    /\ loader' = [NoLoad EXCEPT !.pc = "loading", !.max_retries = max_retries,
                                !.wait_for_selector = wait_for_selector]
    /\ UNCHANGED <<storeVars, clock, collectVars, healthVars>>

\* One pass of the loop.  outcome: "loaded", "timeout" (PlaywrightTimeout
\* from page.goto), "error" (any other exception).
Attempt(outcome, selector_timeout) ==
    /\ loader.pc = "loading"
    /\ loader' = IF outcome = "loaded" THEN AfterLoad(loader, selector_timeout)
                 ELSE AfterFailure(loader)
    /\ limiter.now + Waited(loader, loader', outcome) <= MaxTime
    /\ limiter' = [limiter EXCEPT !.now = @ + Waited(loader, loader', outcome)]
    /\ call' = [op |-> "attempt", outcome |-> outcome,
                selector_timeout |-> (loader.wait_for_selector /\ selector_timeout
                                        /\ outcome = "loaded")]
    /\ UNCHANGED <<storeVars, clock, collectVars, healthVars>>

\* --------------------------------------------------------------- Init
NoStats == [total |-> 0, successful |-> 0, failed |-> 0, errors |-> <<>>]

NoResults == [total |-> 0, active |-> 0, redirected |-> 0, not_found |-> 0,
              errors |-> 0, issues |-> <<>>]

Init ==
    /\ suppliers = <<>>
    /\ products = <<>>
    /\ prices = <<>>
    /\ clock = 0
    /\ call = [op |-> "init"]
    /\ cPc = "idle" /\ cUrls = <<>> /\ cIdx = 0 /\ stats = NoStats /\ cLog = <<>>
    /\ hPc = "idle" /\ hList = <<>> /\ hSnap = <<>> /\ hStale = FALSE /\ hIdx = 0
    /\ results = NoResults
    /\ limiter = NoRequest
    /\ loader = NoLoad

\* ------------------------------------------ direct calls of the store
Resolve(sku, supplier_id, name, category, unit, product_url) ==
    /\ clock < MaxClock
    /\ LET r == get_or_create_product_by_sku(products, sku, supplier_id, name,
                    category, unit, product_url, clock + 1)
       IN  /\ Cardinality(DOMAIN r.products) <= MaxProducts
           /\ products' = r.products
           /\ call' = [op |-> "resolve",
                       args |-> <<sku, supplier_id, name, category, unit, product_url>>,
                       ret |-> r.ret,
                       renamed |-> (r.ret \in DOMAIN products
                                      /\ r.products[r.ret].name # products[r.ret].name),
                       again |-> (call.op = "resolve" /\ call.args =
                                    <<sku, supplier_id, name, category, unit, product_url>>)]
    /\ clock' = clock + 1
    /\ UNCHANGED <<suppliers, prices, collectVars, healthVars, scraperVars>>

SavePrice(product_id, price, in_stock) ==
    /\ clock < MaxClock
    /\ Cardinality(DOMAIN prices) < MaxPrices
    /\ prices' = save_price(prices, product_id, products[product_id].supplier_id,
                            price, in_stock, clock + 1)
    /\ call' = [op |-> "save_price", ret |-> NextId(DOMAIN prices)]
    /\ clock' = clock + 1
    /\ UNCHANGED <<suppliers, products, collectVars, healthVars, scraperVars>>

\* save_product_from_scraper called with a Product.
SaveProduct(data, failAt) ==
    /\ clock < MaxClock
    /\ LET r == save_product_from_scraper(suppliers, products, prices, data, failAt,
                    clock + 1)
       IN  /\ Cardinality(DOMAIN r.products) <= MaxProducts
           /\ Cardinality(DOMAIN r.prices) <= MaxPrices
           /\ suppliers' = r.suppliers
           /\ products' = r.products
           /\ prices' = r.prices
           /\ call' = [op |-> "save_product",
                       args |-> <<data.sku, SupplierId(r.suppliers, data.supplier)>>,
                       name |-> data.name, price |-> data.price,
                       ret |-> r.ret, ok |-> r.ok]
    /\ clock' = clock + 1
    /\ UNCHANGED <<collectVars, healthVars, scraperVars>>

\* Manual duplicate cleanup, done while no run is in progress.
Merge(keep_id, merge_id) ==
    /\ hPc = "idle"
    /\ cPc = "idle"
    /\ clock < MaxClock
    /\ LET r == merge_duplicate_products(products, prices, keep_id, merge_id)
       IN  /\ products' = r.products
           /\ prices' = r.prices
    /\ call' = [op |-> "merge", args |-> <<keep_id, merge_id>>]
    /\ clock' = clock + 1
    /\ UNCHANGED <<suppliers, collectVars, healthVars, scraperVars>>

\* ------------------------------------------------ collector (collector)
UrlLists == UNION {[1..n -> InputUrls] : n \in 0..MaxUrls}

\* What happens to one item, from what the environment does to it alone.
Cause(fetch, page, failAt) ==
    IF fetch = "raises" THEN "raised"
    ELSE IF fetch \in {"failed", "parse_error"} \/ page.name = None THEN "not_scraped"
    ELSE IF failAt # "none" THEN "not_stored"
    ELSE "stored"

\* The body of the for loop of collect_products on stats; kind is the branch
\* taken: "saved", "save_failed", "no_product", "exception".
RecordItem_exceptionUncounted(st, url, kind) ==
    IF kind = "saved"
    THEN [st EXCEPT !.successful = @ + 1]
    ELSE IF kind = "exception"
    THEN [st EXCEPT !.errors = Append(@, [url |-> url, error |-> "str(e)"])]
    ELSE [st EXCEPT !.failed = @ + 1,
                    !.errors = Append(@, [url |-> url, error |->
                        IF kind = "save_failed" THEN "Database save failed"
                        ELSE "Scraping failed"])]

RecordItem(st, url, kind) ==
    IF kind = "saved"
    THEN [st EXCEPT !.successful = @ + 1]
    ELSE [st EXCEPT !.failed = @ + 1,
                    !.errors = Append(@, [url |-> url, error |->
                        IF kind = "save_failed" THEN "Database save failed"
                        ELSE IF kind = "no_product" THEN "Scraping failed"
                        ELSE "str(e)"])]

\* The for loop of collect_products: the item processed after item idx of n.
NextItem_abortOnException(idx, n, kind) == IF kind = "exception" THEN n ELSE idx + 1

NextItem(idx, n, kind) == idx + 1

CollectStart(product_urls) ==
    /\ cPc = "idle"
    /\ hPc = "idle"
    /\ cPc' = "running"
    /\ cUrls' = product_urls
    /\ cIdx' = 0
    /\ stats' = [NoStats EXCEPT !.total = Len(product_urls)]
    /\ cLog' = <<>>
    /\ call' = [op |-> "collect_start"]
    /\ UNCHANGED <<storeVars, clock, healthVars, scraperVars>>

CollectItem(fetch, page, failAt) ==
    /\ cPc = "running"
    /\ cIdx < Len(cUrls)
    /\ clock < MaxClock
    /\ LET url == cUrls[cIdx + 1]
           got == IF fetch = "raises" THEN {} ELSE scrape_product(url, fetch, page)
           product == CHOOSE d \in got : TRUE
           r == IF got = {}
                THEN [suppliers |-> suppliers, products |-> products,
                      prices |-> prices, ok |-> FALSE, ret |-> NoId]
                ELSE save_product_from_scraper(suppliers, products, prices,
                         product, failAt, clock + 1)
           kind == IF fetch = "raises" THEN "exception"
                   ELSE IF got = {} THEN "no_product"
                   ELSE IF r.ok THEN "saved" ELSE "save_failed"
           st == RecordItem(stats, url, kind)
       IN  /\ Cardinality(DOMAIN r.products) <= MaxProducts
           /\ Cardinality(DOMAIN r.prices) <= MaxPrices
           /\ suppliers' = r.suppliers
           /\ products' = r.products
           /\ prices' = r.prices
           /\ stats' = st
           /\ cIdx' = NextItem(cIdx, Len(cUrls), kind)
           /\ cLog' = Append(cLog, [url |-> url, cause |-> Cause(fetch, page, failAt)])
           /\ call' = [op |-> "collect_item", ret |-> r.ret, kind |-> kind,
                       no_category |-> (got # {} /\ page.category = None),
                       breadcrumbs |-> page.category # None,
                       category |-> IF got = {} THEN None ELSE product.category,
                       no_name |-> (fetch = "ok" /\ page.name = None),
                       fetch |-> fetch,
                       sku |-> IF got = {} THEN None ELSE product.sku,
                       error |-> IF Len(st.errors) > Len(stats.errors)
                                 THEN st.errors[Len(st.errors)].error ELSE ""]
    /\ clock' = clock + 1
    /\ UNCHANGED <<cPc, cUrls, healthVars, scraperVars>>

\* return stats: the run's locals are gone.
CollectFinish ==
    /\ cPc = "running"
    /\ cIdx >= Len(cUrls)
    /\ cPc' = "idle" /\ cUrls' = <<>> /\ cIdx' = 0 /\ stats' = NoStats /\ cLog' = <<>>
    /\ call' = [op |-> "collect_return"]
    /\ UNCHANGED <<storeVars, clock, healthVars, scraperVars>>

\* ------------------------------------------------ monitor (url_monitor)
\* A response of requests.get: the URL of the final response, its status code,
\* or raised when the request failed.
Responses(url) ==
    [raised : {FALSE}, final : {url, U1b}, code : {StatusOK, StatusNotFound} \cup OtherStatuses]
    \cup [raised : {TRUE}, final : {url}, code : {0}]

check_url_status_statusFirst(product_url, resp) ==
    IF resp.raised THEN "error"
    ELSE IF resp.code = StatusOK /\ resp.final = product_url THEN "active"
    ELSE IF resp.code = StatusNotFound THEN "not_found"
    ELSE IF resp.final # product_url THEN "redirect"
    ELSE "error"

check_url_status(product_url, resp) ==
    IF resp.raised THEN "error"
    ELSE IF resp.final # product_url THEN "redirect"
    ELSE IF resp.code = StatusOK THEN "active"
    ELSE IF resp.code = StatusNotFound THEN "not_found"
    ELSE "error"

update_product_url_rekey(prods, product_id, new_url, now) ==
    IF product_id \in DOMAIN prods
    THEN [prods EXCEPT ![product_id].sku = <<new_url[2]>>,
                       ![product_id].product_url = new_url,
                       ![product_id].last_updated = now]
    ELSE prods

update_product_url(prods, product_id, new_url, now) ==
    IF product_id \in DOMAIN prods
    THEN [prods EXCEPT ![product_id].product_url = new_url,
                       ![product_id].last_updated = now]
    ELSE prods

startswith(text, token) == Len(text) >= 1 /\ text[1] = token

\* name is product.name as the monitor's session holds it.
mark_product_discontinued_delete(prods, product_id, name, now) ==
    Drop(prods, {product_id})

mark_product_discontinued_always(prods, product_id, name, now) ==
    IF product_id \in DOMAIN prods
    THEN [prods EXCEPT ![product_id].name = <<Marker>> \o name,
                       ![product_id].last_updated = now]
    ELSE prods

mark_product_discontinued(prods, product_id, name, now) ==
    IF product_id \in DOMAIN prods
    THEN [prods EXCEPT ![product_id].name =
                           IF ~startswith(name, Marker) THEN <<Marker>> \o name ELSE @,
                       ![product_id].last_updated = now]
    ELSE prods

RecordCheck_redirectAlsoActive(res, product_id, status, url) ==
    IF status = "active" THEN [res EXCEPT !.active = @ + 1]
    ELSE IF status = "redirect"
    THEN [res EXCEPT !.redirected = @ + 1, !.active = @ + 1,
              !.issues = Append(@, [product_id |-> product_id, issue |-> "redirect"])]
    ELSE IF status = "not_found"
    THEN [res EXCEPT !.not_found = @ + 1,
              !.issues = Append(@, [product_id |-> product_id, issue |-> "not_found"])]
    ELSE [res EXCEPT !.errors = @ + 1,
              !.issues = Append(@, [product_id |-> product_id, issue |-> "error"])]

RecordCheck_errorsUnlisted(res, product_id, status, url) ==
    IF status = "active" THEN [res EXCEPT !.active = @ + 1]
    ELSE IF status = "redirect"
    THEN [res EXCEPT !.redirected = @ + 1,
              !.issues = Append(@, [product_id |-> product_id, issue |-> "redirect"])]
    ELSE IF status = "not_found"
    THEN [res EXCEPT !.not_found = @ + 1,
              !.issues = Append(@, [product_id |-> product_id, issue |-> "not_found"])]
    ELSE [res EXCEPT !.errors = @ + 1]

RecordCheck(res, product_id, status, url) ==
    IF status = "active" THEN [res EXCEPT !.active = @ + 1]
    ELSE IF status = "redirect"
    THEN [res EXCEPT !.redirected = @ + 1,
              !.issues = Append(@, [product_id |-> product_id, issue |-> "redirect"])]
    ELSE IF status = "not_found"
    THEN [res EXCEPT !.not_found = @ + 1,
              !.issues = Append(@, [product_id |-> product_id, issue |-> "not_found"])]
    ELSE [res EXCEPT !.errors = @ + 1,
              !.issues = Append(@, [product_id |-> product_id, issue |-> "error"])]

HealthStart ==
    /\ hPc = "idle"
    /\ cPc = "idle"
    /\ hPc' = "running"
    /\ hList' = get_all_products(products)
    /\ hSnap' = products
    /\ hStale' = TRUE
    /\ hIdx' = 0
    /\ results' = [NoResults EXCEPT !.total = Len(hList')]
    /\ call' = [op |-> "health_start"]
    /\ UNCHANGED <<storeVars, clock, collectVars, scraperVars>>

HealthStep_dropsHistory(resp) ==
    /\ hPc = "running"
    /\ hIdx < Len(hList)
    /\ clock < MaxClock
    /\ LET id == hList[hIdx + 1]
           product == IF hStale THEN hSnap[id] ELSE products[id]
           status == check_url_status(product.product_url, resp)
       IN  /\ resp \in Responses(product.product_url)
           /\ ~Truthy(product.product_url) => resp.raised
           /\ results' = RecordCheck(results, id, status, product.product_url)
           /\ products' =
                IF status = "redirect"
                THEN update_product_url(products, id, resp.final, clock + 1)
                ELSE IF status = "not_found"
                THEN mark_product_discontinued(products, id, product.name, clock + 1)
                ELSE products
           /\ hStale' = (hStale /\ status \in {"active", "error"})
           /\ call' = [op |-> "health_check", id |-> id, ret |-> status,
                       url |-> product.product_url, name |-> product.name,
                       resp |-> resp]
    /\ hIdx' = hIdx + 1
    /\ clock' = clock + 1
    /\ prices' = IF call'.ret = "not_found"
                 THEN Drop(prices, {i \in DOMAIN prices : prices[i].product_id = call'.id})
                 ELSE prices
    /\ UNCHANGED <<suppliers, hPc, hList, hSnap, collectVars, scraperVars>>

\* One iteration of the loop of run_url_health_check.  The attributes of
\* product are those loaded by get_all_products until the session commits,
\* which expires them; afterwards each read loads the row again.
HealthStep(resp) ==
    /\ hPc = "running"
    /\ hIdx < Len(hList)
    /\ clock < MaxClock
    /\ LET id == hList[hIdx + 1]
           product == IF hStale THEN hSnap[id] ELSE products[id]
           status == check_url_status(product.product_url, resp)
       IN  /\ resp \in Responses(product.product_url)
           /\ ~Truthy(product.product_url) => resp.raised
           /\ results' = RecordCheck(results, id, status, product.product_url)
           /\ products' =
                IF status = "redirect"
                THEN update_product_url(products, id, resp.final, clock + 1)
                ELSE IF status = "not_found"
                THEN mark_product_discontinued(products, id, product.name, clock + 1)
                ELSE products
           /\ hStale' = (hStale /\ status \in {"active", "error"})
           /\ call' = [op |-> "health_check", id |-> id, ret |-> status,
                       url |-> product.product_url, name |-> product.name,
                       resp |-> resp]
    /\ hIdx' = hIdx + 1
    /\ clock' = clock + 1
    /\ UNCHANGED <<suppliers, prices, hPc, hList, hSnap, collectVars, scraperVars>>

\* return results: the run's locals and the monitor's session are gone.
HealthFinish ==
    /\ hPc = "running"
    /\ hIdx >= Len(hList)
    /\ hPc' = "idle" /\ hList' = <<>> /\ hSnap' = <<>> /\ hStale' = FALSE /\ hIdx' = 0
    /\ results' = NoResults
    /\ call' = [op |-> "health_return"]
    /\ UNCHANGED <<storeVars, clock, collectVars, scraperVars>>

\* ---------------------------------------------------------------- Next
AllResponses == UNION {Responses(u) : u \in Urls \cup {None}}

Readings == {[price |-> 12, in_stock |-> FALSE]}

\* Observed <<name, category, unit, product_url>>: a full observation, each
\* attribute changed or missing alone, and everything missing.
Observed ==
    {<<<<"A">>, <<"Timber">>, <<"sheet">>, U1>>,
     <<<<"B">>, <<"Timber">>, <<"sheet">>, U1>>,
     <<None, <<"Timber">>, <<"sheet">>, U1>>,
     <<<<"A">>, None, <<"sheet">>, U1>>,
     <<<<"A">>, <<"Timber">>, Each, U1>>,
     <<<<"A">>, <<"Timber">>, <<"sheet">>, U1b>>,
     <<<<"A">>, <<"Timber">>, <<"sheet">>, None>>,
     <<None, None, Each, None>>}

\* Products as scrape_product returns them.
Scraped ==
    scrape_product(U1, "ok", FullPage)
    \cup scrape_product(U1b, "ok", Page(<<"B">>, 12, None, None, None, FALSE))

\* find_duplicate_products()
FindDuplicates ==
    /\ call' = [op |-> "find_duplicates", ret |-> find_duplicate_products(products)]
    /\ UNCHANGED <<storeVars, clock, collectVars, healthVars, scraperVars>>

\* The store's methods called directly.
NextStore ==
    \/ \E sku \in Skus, sid \in 1..Len(suppliers), a \in Observed :
            Resolve(sku, sid, a[1], a[2], a[3], a[4])
    \/ \E id \in DOMAIN products, r \in Readings : SavePrice(id, r.price, r.in_stock)
    \/ \E d \in Scraped, failAt \in {"none", "price"} : SaveProduct(d, failAt)
    \/ \E keep \in 1..(MaxProducts + 1), discard \in 1..(MaxProducts + 1) :
            Merge(keep, discard)
    \/ FindDuplicates

\* A database in which both suppliers have been created.
InitStore ==
    /\ suppliers = <<Bunnings, <<"Other">>>>
    /\ products = <<>>
    /\ prices = <<>>
    /\ clock = 0
    /\ call = [op |-> "init"]
    /\ cPc = "idle" /\ cUrls = <<>> /\ cIdx = 0 /\ stats = NoStats /\ cLog = <<>>
    /\ hPc = "idle" /\ hList = <<>> /\ hSnap = <<>> /\ hStale = FALSE /\ hIdx = 0
    /\ results = NoResults
    /\ limiter = NoRequest
    /\ loader = NoLoad

SpecStore == InitStore /\ [][NextStore]_vars

\* What can happen to one item: the fetch fails, an extractor or the parser
\* raises, or a page is extracted and stored.
Envs ==
    [fetch : {"failed", "parse_error", "raises"}, page : {FullPage}, failAt : {"none"}]
    \cup [fetch : {"ok"}, page : Pages, failAt : {"none"}]
    \cup [fetch : {"ok"}, page : {FullPage}, failAt : FailPoints]

\* The running system: collection runs and health checks, one run at a time,
\* and the manual merge between runs.
Next ==
    \/ \E urls \in UrlLists : CollectStart(urls)
    \/ \E e \in Envs : CollectItem(e.fetch, e.page, e.failAt)
    \/ CollectFinish
    \/ HealthStart
    \/ \E resp \in AllResponses : HealthStep(resp)
    \/ HealthFinish
    \/ \E keep \in 1..(MaxProducts + 1), discard \in 1..(MaxProducts + 1) :
            Merge(keep, discard)

Spec == Init /\ [][Next]_vars

\* The queries over a store of two identities to which observations are
\* appended, one a day.
ObservedPrices == {0, 10, 12, 15}

\* <<product_id, price>>: every price for the first identity, two for the other.
Observations == ({1} \X ObservedPrices) \cup ({2} \X {10, 15})

Windows == 0..MaxObservations

InitQuery ==
    /\ suppliers = <<Bunnings>>
    /\ products = <<NewProduct(<<"101">>, 1, <<"A">>, <<"Timber">>, <<"sheet">>, U1, 0),
                    NewProduct(<<"102">>, 1, <<"B">>, <<"Timber">>, Each, U0, 0)>>
    /\ prices = <<>>
    /\ clock = 0
    /\ call = [op |-> "init"]
    /\ cPc = "idle" /\ cUrls = <<>> /\ cIdx = 0 /\ stats = NoStats /\ cLog = <<>>
    /\ hPc = "idle" /\ hList = <<>> /\ hSnap = <<>> /\ hStale = FALSE /\ hIdx = 0
    /\ results = NoResults
    /\ limiter = NoRequest
    /\ loader = NoLoad

\* save_price of a reading taken a day after the last.
Observe(product_id, price) ==
    /\ Cardinality(DOMAIN prices) < MaxObservations
    /\ prices' = save_price(prices, product_id, products[product_id].supplier_id,
                            price, TRUE, clock + 1)
    /\ call' = [op |-> "save_price", ret |-> NextId(DOMAIN prices)]
    /\ clock' = clock + 1
    /\ UNCHANGED <<suppliers, products, collectVars, healthVars, scraperVars>>

\* get_price_history(product_id, days) and get_latest_price(product_id).
QueryHistory(product_id, days) ==
    /\ call' = [op |-> "history", id |-> product_id, days |-> days,
                ret |-> get_price_history(prices, product_id, days, clock),
                latest |-> get_latest_price(prices, product_id)]
    /\ UNCHANGED <<storeVars, clock, collectVars, healthVars, scraperVars>>

\* get_price_changes(days)
QueryChanges(days) ==
    /\ call' = [op |-> "changes", days |-> days,
                ret |-> get_price_changes(products, prices, days, clock)]
    /\ UNCHANGED <<storeVars, clock, collectVars, healthVars, scraperVars>>

NextQuery ==
    \/ \E o \in Observations : Observe(o[1], o[2])
    \/ \E id \in DOMAIN products, days \in Windows : QueryHistory(id, days)
    \/ \E days \in Windows : QueryChanges(days)

SpecQuery == InitQuery /\ [][NextQuery]_vars

\* get_price_comparison over a store of two identities, named "ax" and
\* "A_", to which observations are appended.
NamePatterns == {<<>>, <<"x">>, <<"a">>, <<"_">>, <<"x", "a">>}

InitCompare ==
    /\ suppliers = <<Bunnings>>
    /\ products = <<NewProduct(<<"101">>, 1, <<"a", "x">>, <<"Timber">>, <<"sheet">>, U1, 0),
                    NewProduct(<<"102">>, 1, <<"A", "_">>, <<"Timber">>, Each, U0, 0)>>
    /\ prices = <<>>
    /\ clock = 0
    /\ call = [op |-> "init"]
    /\ cPc = "idle" /\ cUrls = <<>> /\ cIdx = 0 /\ stats = NoStats /\ cLog = <<>>
    /\ hPc = "idle" /\ hList = <<>> /\ hSnap = <<>> /\ hStale = FALSE /\ hIdx = 0
    /\ results = NoResults
    /\ limiter = NoRequest
    /\ loader = NoLoad

\* get_price_comparison(product_name_pattern)
QueryCompare(product_name_pattern, nocase) ==
    /\ call' = [op |-> "compare", pattern |-> product_name_pattern,
                nocase |-> nocase,
                ret |-> get_price_comparison(suppliers, products, prices,
                                             product_name_pattern, nocase)]
    /\ UNCHANGED <<storeVars, clock, collectVars, healthVars, scraperVars>>

NextCompare ==
    \/ \E o \in Observations : Observe(o[1], o[2])
    \/ \E pattern \in NamePatterns, nocase \in BOOLEAN : QueryCompare(pattern, nocase)

SpecCompare == InitCompare /\ [][NextCompare]_vars

\* The scraper alone: calls of _get_page_content, each after its turn at the
\* rate limiter, with time passing.
NextFetch ==
    \/ Elapse
    \/ \E w \in BOOLEAN, n \in 1..default_max_retries, j \in Jitters, o \in {0, 1} :
            LoadStart(w, n, j, o)
    \/ \E outcome \in {"loaded", "timeout", "error"}, t \in BOOLEAN :
            Attempt(outcome, t)

SpecFetch == Init /\ [][NextFetch]_vars

\* The extractors alone, each applied to what its selectors find in a page:
\* no element, an empty one, one holding whitespace only or no usable value,
\* and elements holding values.
TextElements ==
    {NoElement,
     Element(<<>>, <<>>),
     Element(<<>>, <<" ">>),
     Element(<<>>, <<"A">>),
     Element(<<>>, <<" ", "B", " ", "\n", "C", "\n">>)}

SkuElements ==
    {NoElement,
     Element(<<>>, <<>>),
     Element(<<>>, <<"I", "N">>),
     Element(<<>>, <<"N", "1", "0", "2", " ">>),
     Element(<<>>, <<"7">>)}

PriceElements ==
    {NoElement,
     Element(<<>>, <<>>),
     Element(<<>>, <<"P", "O", "A">>),
     Element(<<>>, <<"$", "1", "0">>),
     Element(<<"1", "2", ".", "5", "0">>, <<"$", "9">>)}

MatchLists ==
    {<<>>,
     <<<<"0", ".", "0", "0">>, <<"1", "5">>>>,
     <<<<"2", "0", "0", ",", "0", "0", "0">>>>}

ElementsOf(field) ==
    IF field = "price" THEN PriceElements
    ELSE IF field = "sku" THEN SkuElements
    ELSE TextElements

ExtractInputs ==
    UNION {[op : {"page"}, field : {field},
            elements : [1..Selectors[field] -> ElementsOf(field)],
            matches : IF field = "price" THEN MatchLists ELSE {<<>>}] :
           field \in DOMAIN Selectors}

InitExtract ==
    /\ suppliers = <<>>
    /\ products = <<>>
    /\ prices = <<>>
    /\ clock = 0
    /\ call \in ExtractInputs
    /\ cPc = "idle" /\ cUrls = <<>> /\ cIdx = 0 /\ stats = NoStats /\ cLog = <<>>
    /\ hPc = "idle" /\ hList = <<>> /\ hSnap = <<>> /\ hStale = FALSE /\ hIdx = 0
    /\ results = NoResults
    /\ limiter = NoRequest
    /\ loader = NoLoad

\* The method of the field is called on the parsed page.
Extract ==
    /\ call.op = "page"
    /\ call' = [op |-> "extract", field |-> call.field, elements |-> call.elements,
                matches |-> call.matches,
                ret |-> extract(call.field, call.elements, call.matches)]
    /\ UNCHANGED <<storeVars, clock, collectVars, healthVars, scraperVars>>

NextExtract == Extract

SpecExtract == InitExtract /\ [][NextExtract]_vars

\* clean_price alone, applied to every text of up to MaxText characters: a
\* currency sign, a minus sign, a letter, the point and two digits.
PriceChars == {"$", "-", "e", ".", "0", "7"}

PriceTexts == UNION {[1..n -> PriceChars] : n \in 0..MaxText}

InitPrice ==
    /\ suppliers = <<>>
    /\ products = <<>>
    /\ prices = <<>>
    /\ clock = 0
    /\ call \in [op : {"text"}, text : PriceTexts]
    /\ cPc = "idle" /\ cUrls = <<>> /\ cIdx = 0 /\ stats = NoStats /\ cLog = <<>>
    /\ hPc = "idle" /\ hList = <<>> /\ hSnap = <<>> /\ hStale = FALSE /\ hIdx = 0
    /\ results = NoResults
    /\ limiter = NoRequest
    /\ loader = NoLoad

\* self.clean_price(price_text)
CleanPrice ==
    /\ call.op = "text"
    /\ call' = [op |-> "clean_price", text |-> call.text, ret |-> clean_price(call.text)]
    /\ UNCHANGED <<storeVars, clock, collectVars, healthVars, scraperVars>>

NextPrice == CleanPrice

SpecPrice == InitPrice /\ [][NextPrice]_vars

\* A collection run and a health-check run going at the same time, the
\* collector and the monitor each with a DatabaseManager and so a session of
\* its own: either run may start while the other is going, and their steps
\* interleave.  The collector's session commits in every item that stores,
\* which expires what it had loaded; the monitor's keeps what
\* get_all_products loaded until the monitor itself commits.
CollectStartDuring(product_urls) ==
    /\ cPc = "idle"
    /\ cPc' = "running"
    /\ cUrls' = product_urls
    /\ cIdx' = 0
    /\ stats' = [NoStats EXCEPT !.total = Len(product_urls)]
    /\ cLog' = <<>>
    /\ call' = [op |-> "collect_start"]
    /\ UNCHANGED <<storeVars, clock, healthVars, scraperVars>>

HealthStartDuring ==
    /\ hPc = "idle"
    /\ hPc' = "running"
    /\ hList' = get_all_products(products)
    /\ hSnap' = products
    /\ hStale' = TRUE
    /\ hIdx' = 0
    /\ results' = [NoResults EXCEPT !.total = Len(hList')]
    /\ call' = [op |-> "health_start"]
    /\ UNCHANGED <<storeVars, clock, collectVars, scraperVars>>

NextInterleaved ==
    \/ \E urls \in UrlLists : CollectStartDuring(urls)
    \/ \E page \in Pages : CollectItem("ok", page, "none")
    \/ CollectFinish
    \/ HealthStartDuring
    \/ \E resp \in AllResponses : HealthStep(resp)
    \/ HealthFinish

SpecInterleaved == Init /\ [][NextInterleaved]_vars

\* =================================================================
\* Properties
\* =================================================================
KeyOwners(prods, sku, supplier_id) ==
    {i \in DOMAIN prods : prods[i].sku = sku /\ prods[i].supplier_id = supplier_id}

\* C1: the store holds at most one identity per (supplier, sku); a resolve
\* (get_or_create_product_by_sku, directly or in save_product_from_scraper)
\* returns a row that holds the key asked for, and when the key exists it
\* creates no row and returns the row that held the key.
C1_OneIdentityPerKey ==
    /\ [](\A i, j \in DOMAIN products :
            (products[i].sku = products[j].sku
             /\ products[i].supplier_id = products[j].supplier_id) => i = j)
    /\ [][(call'.op \in {"resolve", "save_product"}
           /\ KeyOwners(products, call'.args[1], call'.args[2]) # {})
          => /\ DOMAIN products' = DOMAIN products
             /\ call'.op = "resolve" => call'.ret # NoId
             /\ call'.ret # NoId =>
                  call'.ret \in KeyOwners(products, call'.args[1], call'.args[2])]_vars
    /\ [][(call'.op \in {"resolve", "save_product"} /\ call'.ret # NoId)
          => call'.ret \in KeyOwners(products', call'.args[1], call'.args[2])]_vars

\* A resolve found the identity of its key among two identities, stored earlier.
C1_Witness ==
    /\ call.op = "resolve"
    /\ call.ret \in DOMAIN products
    /\ products[call.ret].last_updated < clock
    /\ Cardinality(DOMAIN products) = 2

PricesOf(prs, id) == {i \in DOMAIN prs : prs[i].product_id = id}

\* C2: a resolve of an existing key with a changed, non-empty name sets the
\* name, advances last_updated, returns the same id, and every price row of
\* the identity is still there and still refers to it.
C2_RenameKeepsHistory ==
    [][\A id \in DOMAIN products :
          (/\ call'.op = "resolve"
           /\ clock' # clock
           /\ id \in KeyOwners(products, call'.args[1], call'.args[2])
           /\ Truthy(call'.args[3])
           /\ call'.args[3] # products[id].name)
          => /\ call'.ret = id
             /\ id \in DOMAIN products'
             /\ products'[id].name = call'.args[3]
             /\ products'[id].last_updated > products[id].last_updated
             /\ \A i \in PricesOf(prices, id) :
                   i \in DOMAIN prices' /\ prices'[i] = prices[i]]_vars

\* An identity with a price row has just been renamed.
C2_Witness ==
    /\ call.op = "resolve"
    /\ call.renamed
    /\ call.ret \in DOMAIN products
    /\ products[call.ret].name = call.args[3]
    /\ \E i \in PricesOf(prices, call.ret) : prices[i].scraped_at < clock

\* C3: a resolve that repeats the resolve before it, with the same key and
\* the same attributes, returns what the first returned and changes no row.
C3_SecondResolveIsNoOp ==
    [][(call.op = "resolve" /\ call'.op = "resolve" /\ call'.args = call.args
        /\ clock' # clock)
       => /\ call'.ret = call.ret
          /\ products' = products
          /\ prices' = prices
          /\ suppliers' = suppliers]_vars

\* The same resolve was done twice in a row and returned an identity.
C3_Witness ==
    /\ call.op = "resolve"
    /\ call.again
    /\ call.ret \in DOMAIN products

\* C5 as claimed: on an existing identity, each of name, category, unit and
\* URL whose observed value is non-empty and differs from the stored one is
\* overwritten, and last_updated advances when one was.
C5_EveryAttributeOverwritten ==
    [][\A id \in DOMAIN products :
          (/\ call'.op = "resolve"
           /\ clock' # clock
           /\ id \in KeyOwners(products, call'.args[1], call'.args[2]))
          => LET p == products[id]
                 q == products'[id]
                 name == call'.args[3]
                 category == call'.args[4]
                 unit == call'.args[5]
                 url == call'.args[6]
             IN  /\ id \in DOMAIN products'
                 /\ (Truthy(name) /\ name # p.name) => q.name = name
                 /\ (Truthy(category) /\ category # p.category) => q.category = category
                 /\ (Truthy(unit) /\ unit # p.unit) => q.unit = unit
                 /\ (Truthy(url) /\ url # p.product_url) => q.product_url = url
                 /\ q # p => q.last_updated > p.last_updated]_vars

\* C8 as claimed: for every keep_id and merge_id, a merge leaves every price
\* row of merge_id a row of keep_id, removes the identity merge_id and
\* leaves the number of price rows as it was.
C8_MergeKeepsEveryObservation ==
    [][call'.op = "merge"
       => /\ \A i \in PricesOf(prices, call'.args[2]) :
                i \in DOMAIN prices' /\ prices'[i].product_id = call'.args[1]
          /\ call'.args[2] \notin DOMAIN products'
          /\ Cardinality(DOMAIN prices') = Cardinality(DOMAIN prices)]_vars

\* C4 as claimed: when a collected page gives no category, the category
\* stored for the identity the item resolves to stays as it was; a page
\* that gives no name changes no row at all.
C4_EmptyExtractionKeepsMetadata ==
    [][(call'.op = "collect_item" /\ clock' # clock)
       => /\ (call'.no_category /\ call'.ret \in DOMAIN products
              /\ call'.ret \in DOMAIN products')
                => products'[call'.ret].category = products[call'.ret].category
          /\ call'.kind = "no_product" => products' = products /\ prices' = prices]_vars

\* C6: no step changes the sku or the supplier_id of a row of products.
C6_KeyNeverChanges ==
    [][\A id \in DOMAIN products \cap DOMAIN products' :
          /\ products'[id].sku = products[id].sku
          /\ products'[id].supplier_id = products[id].supplier_id]_vars

\* A health check has just corrected the URL of an identity that has a
\* price row.
C6_Witness ==
    /\ call.op = "health_check"
    /\ call.ret = "redirect"
    /\ call.id \in DOMAIN products
    /\ products[call.id].product_url = U1b
    /\ products[call.id].last_updated = clock
    /\ PricesOf(prices, call.id) # {}

\* C7: a step of a collection run or of a health check leaves every price
\* row as it was and adds at most one; an item that is saved adds exactly one.
C7_ObservationsAppendOnly ==
    [][call'.op # "merge"
       => /\ \A i \in DOMAIN prices : i \in DOMAIN prices' /\ prices'[i] = prices[i]
          /\ Cardinality(DOMAIN prices') <= Cardinality(DOMAIN prices) + 1
          /\ (call'.op = "collect_item" /\ call'.kind = "saved" /\ clock' # clock)
               => Cardinality(DOMAIN prices') = Cardinality(DOMAIN prices) + 1]_vars

\* An item was saved for an identity that had a price row already.
C7_Witness ==
    /\ call.op = "collect_item"
    /\ call.kind = "saved"
    /\ Cardinality(PricesOf(prices, call.ret)) = 2

\* C9: only a merge removes a row of products; a health check that finds
\* 404 keeps the row and its name then starts with the marker.
C9_IdentitiesNeverDeleted ==
    [][/\ call'.op # "merge" => DOMAIN products \subseteq DOMAIN products'
       /\ (call'.op = "health_check" /\ call'.ret = "not_found" /\ clock' # clock)
            => /\ call'.id \in DOMAIN products'
               /\ startswith(products'[call'.id].name, Marker)]_vars

\* A health check found 404 for an identity, which is still stored, flagged.
C9_Witness ==
    /\ call.op = "health_check"
    /\ call.ret = "not_found"
    /\ call.id \in DOMAIN products
    /\ startswith(products[call.id].name, Marker)
    /\ products[call.id].last_updated = clock

RECURSIVE ErrorsOf(_)
ErrorsOf(log) ==
    IF log = <<>> THEN <<>>
    ELSE LET e == log[Len(log)]
             rest == ErrorsOf(SubSeq(log, 1, Len(log) - 1))
         IN  IF e.cause = "stored" THEN rest
             ELSE Append(rest, [url |-> e.url, error |->
                     IF e.cause = "not_scraped" THEN "Scraping failed"
                     ELSE IF e.cause = "not_stored" THEN "Database save failed"
                     ELSE "str(e)"])

\* C10: during a run the items processed are the first cIdx URLs of the
\* input, each once and in order, whatever happened to each; what is
\* recorded for an item depends on what happened to that item alone; and the
\* run returns only when every URL has been processed.
C10_FailuresAreIsolated ==
    /\ [](cPc = "running" =>
            /\ cIdx <= Len(cUrls)
            /\ Len(cLog) = cIdx
            /\ \A i \in 1..cIdx : cLog[i].url = cUrls[i]
            /\ stats.total = Len(cUrls)
            /\ stats.errors = ErrorsOf(cLog)
            /\ stats.failed = Len(stats.errors)
            /\ stats.successful = cIdx - stats.failed)
    /\ [][(cPc = "running" /\ cPc' = "idle") => Len(cLog) = Len(cUrls)]_vars

\* Two items processed: the first raised, the second was stored.
C10_Witness ==
    /\ cPc = "running"
    /\ cIdx = 2
    /\ cLog[1].cause = "raised"
    /\ cLog[2].cause = "stored"
    /\ stats.successful = 1

\* C11 as claimed: an item whose fetch failed on every attempt adds one to
\* failed and one entry with its URL to errors, leaves successful, the
\* earlier entries and the store as they were, and the message of its entry
\* tells it from an item whose page was fetched: it is not the message
\* recorded for the fetched item processed just before it.
C11_FetchFailureReported ==
    [][(call'.op = "collect_item" /\ call'.fetch = "failed" /\ clock' # clock)
       => /\ stats'.failed = stats.failed + 1
          /\ stats'.successful = stats.successful
          /\ stats'.total = stats.total
          /\ Len(stats'.errors) = Len(stats.errors) + 1
          /\ SubSeq(stats'.errors, 1, Len(stats.errors)) = stats.errors
          /\ stats'.errors[Len(stats'.errors)].url = cUrls[cIdx + 1]
          /\ UNCHANGED storeVars
          /\ (call.op = "collect_item" /\ call.fetch = "ok")
                => call'.error # call.error]_vars

UnknownIds(prods, supplier_id) == KeyOwners(prods, Unknown, supplier_id)

\* C12 as claimed: an item stored with the SKU "unknown" does not change the
\* report the way an ordinary success does (successful + 1, nothing else).
C12_UnknownSkuSurfaced ==
    [][(call'.op = "collect_item" /\ call'.kind = "saved" /\ call'.sku = Unknown
        /\ clock' # clock)
       => ~(/\ stats'.successful = stats.successful + 1
            /\ stats'.failed = stats.failed
            /\ stats'.errors = stats.errors)]_vars

\* C13 as claimed, on the runs that would show it: an unknown-SKU snapshot
\* stored when its supplier has an identity with the SKU "unknown" leaves the
\* supplier with more than one such identity.
C13_UnknownSkuMakesDuplicates ==
    [][(/\ call'.op = "collect_item" /\ call'.kind = "saved" /\ call'.sku = Unknown
        /\ clock' # clock
        /\ UnknownIds(products, SupplierId(suppliers, Bunnings)) # {})
       => Cardinality(UnknownIds(products', SupplierId(suppliers', Bunnings))) > 1]_vars

\* C13: "unknown" is a key like any other.  A supplier never has more than
\* one identity with the SKU "unknown"; an unknown-SKU snapshot stored when
\* there is one creates no identity, is resolved to that one, and its
\* observation is appended to that identity's history.
C13_UnknownSharesOneIdentity ==
    /\ [](\A sid \in 1..Len(suppliers) : Cardinality(UnknownIds(products, sid)) <= 1)
    /\ [][(/\ call'.op = "collect_item" /\ call'.kind = "saved" /\ call'.sku = Unknown
            /\ clock' # clock
            /\ UnknownIds(products, SupplierId(suppliers, Bunnings)) # {})
           => /\ DOMAIN products' = DOMAIN products
              /\ call'.ret \in UnknownIds(products, SupplierId(suppliers, Bunnings))
              /\ PricesOf(prices', call'.ret) =
                    PricesOf(prices, call'.ret) \cup {NextId(DOMAIN prices)}]_vars

\* A second unknown-SKU snapshot, with another name, was stored: one identity
\* holds both observations and now has the second name.
C13_Witness ==
    /\ call.op = "collect_item"
    /\ call.kind = "saved"
    /\ call.sku = Unknown
    /\ Cardinality(DOMAIN products) = 1
    /\ products[call.ret].name = <<"B">>
    /\ \E i, j \in PricesOf(prices, call.ret) : prices[i].price # prices[j].price

\* C14 as claimed: an item whose save_product_from_scraper returned False
\* leaves suppliers, products and prices as they were and is recorded as
\* failed.
C14_FailedStoreRollsBack ==
    [][(call'.op = "collect_item" /\ call'.kind = "save_failed" /\ clock' # clock)
       => /\ UNCHANGED storeVars
          /\ stats'.failed = stats.failed + 1
          /\ call'.error = "Database save failed"]_vars

\* C15: for an item whose page gives no name, scrape_product returns no
\* Product, no row of suppliers, products or prices is added or changed, the
\* item adds one to failed and one entry with its URL to errors, and the
\* loop goes on to the next URL.
C15_NoNameIsHardFailure ==
    [][(call'.op = "collect_item" /\ call'.no_name /\ clock' # clock)
       => /\ call'.kind = "no_product"
          /\ call'.sku = None
          /\ UNCHANGED storeVars
          /\ stats'.failed = stats.failed + 1
          /\ stats'.successful = stats.successful
          /\ stats'.errors = Append(stats.errors,
                 [url |-> cUrls[cIdx + 1], error |-> "Scraping failed"])
          /\ cPc' = "running"
          /\ cUrls' = cUrls
          /\ cIdx' = cIdx + 1]_vars

\* A page without a name was met as the first of two URLs, in a store that
\* holds an identity and an observation: the run is going on.
C15_Witness ==
    /\ call.op = "collect_item"
    /\ call.no_name
    /\ cPc = "running"
    /\ cIdx = 1
    /\ Len(cUrls) = 2
    /\ DOMAIN products # {}
    /\ DOMAIN prices # {}
    /\ stats.failed = 1

\* C16: a call of _get_page_content makes at most max_retries attempts; it
\* returns the HTML at the first attempt that loads the page and makes no
\* attempt after it; it returns None only when max_retries attempts have
\* failed; it sleeps the retry delay once after each failed attempt but the
\* last, and at no other time; an attempt in which only wait_for_selector
\* timed out returns the HTML and is not a failure.
C16_BoundedRetries ==
    /\ [](/\ loader.attempts <= loader.max_retries
          /\ loader.pc = "loading" =>
                /\ loader.ret = "pending"
                /\ loader.attempts = loader.failures
                /\ loader.attempts < loader.max_retries
                /\ loader.sleeps = loader.failures
          /\ loader.ret = "html" =>
                /\ loader.pc = "idle"
                /\ loader.attempts = loader.failures + 1
                /\ loader.sleeps = loader.failures
          /\ loader.ret = "none" =>
                /\ loader.pc = "idle"
                /\ loader.failures = loader.max_retries
                /\ loader.attempts = loader.max_retries
                /\ loader.sleeps = loader.max_retries - 1)
    /\ [][call'.op = "attempt"
          => /\ loader'.attempts = loader.attempts + 1
             /\ call'.outcome = "loaded"
                  => /\ loader'.ret = "html"
                     /\ loader'.failures = loader.failures
                     /\ loader'.sleeps = loader.sleeps
             /\ call'.outcome # "loaded"
                  => limiter'.now - limiter.now =
                       IF loader'.pc = "loading" THEN retry_wait ELSE 0]_vars
    /\ [][(loader.pc = "idle" /\ loader'.pc = "idle") => loader' = loader]_vars

\* The third attempt of a call loaded the page though its wait for the
\* selector timed out, after two failed attempts and two sleeps.
C16_Witness ==
    /\ call.op = "attempt"
    /\ call.selector_timeout
    /\ loader.ret = "html"
    /\ loader.attempts = default_max_retries
    /\ loader.failures = 2
    /\ loader.sleeps = 2
    /\ loader.selector_timeouts = 1

\* C17 as claimed: a grant that follows another is at least scrape_delay plus
\* the smallest jitter, 0.5 s, after it, and last_request_time is the time
\* of the grant.
C17_GrantsSpacedByDelayAndJitter ==
    [][(call'.op = "load_start" /\ ~call'.first)
       => /\ limiter'.last_request_time - limiter.last_request_time
                >= scrape_delay + Min(Jitters)
          /\ limiter'.last_request_time = limiter'.now]_vars

\* C18: get_price_history returns rows of the identity in ascending order of
\* scraped_at; when the window holds every observation of the identity,
\* get_latest_price returns the last of them; and get_latest_price returns
\* None exactly when the identity has no observation.
C18_HistoryAscendingLatestLast ==
    [](call.op = "history" =>
         LET h == call.ret
             own == PricesOf(prices, call.id)
         IN  /\ \A k \in 1..Len(h) : h[k] \in own
             /\ \A k \in 1..(Len(h) - 1) :
                    prices[h[k]].scraped_at < prices[h[k + 1]].scraped_at
             /\ {h[k] : k \in 1..Len(h)} =
                    {i \in own : prices[i].scraped_at >= clock - call.days}
             /\ (own # {} /\ {h[k] : k \in 1..Len(h)} = own)
                    => call.latest = h[Len(h)]
             /\ call.latest = NoId <=> own = {}
             /\ call.latest # NoId => call.latest \in own)

\* The history of an identity with three observations was asked for with a
\* window that holds them all.
C18_Witness ==
    /\ call.op = "history"
    /\ Len(call.ret) = 3
    /\ call.latest = call.ret[3]
    /\ call.latest = 3

\* The two most recent observations of an identity in the window, from the
\* rows themselves: <<previous, latest>>, or <<>> when there are fewer than two.
LastPair(prs, id, cutoff_date) ==
    LET W == {i \in PricesOf(prs, id) : prs[i].scraped_at >= cutoff_date}
    IN  IF Cardinality(W) < 2 THEN <<>>
        ELSE LET l == CHOOSE i \in W : \A j \in W : prs[j].scraped_at <= prs[i].scraped_at
                 p == CHOOSE i \in W \ {l} :
                        \A j \in W \ {l} : prs[j].scraped_at <= prs[i].scraped_at
             IN  <<p, l>>

\* C19: a call of get_price_changes that returns holds at most one record
\* per identity; the record of an identity is made of its two most recent
\* observations in the window, whose prices differ; an identity whose two
\* most recent prices in the window differ has a record.  So 10, 12, 15 gives
\* the record 12 -> 15.
C19_ChangesFromLastPair ==
    [](( call.op = "changes" /\ ~call.ret.raised) =>
         LET rs == call.ret.results
             cutoff == clock - call.days
         IN  /\ \A a, b \in 1..Len(rs) : rs[a].product_id = rs[b].product_id => a = b
             /\ \A a \in 1..Len(rs) :
                    LET pair == LastPair(prices, rs[a].product_id, cutoff)
                    IN  /\ pair # <<>>
                        /\ rs[a].previous_price = prices[pair[1]].price
                        /\ rs[a].previous_date = prices[pair[1]].scraped_at
                        /\ rs[a].current_price = prices[pair[2]].price
                        /\ rs[a].current_date = prices[pair[2]].scraped_at
                        /\ rs[a].previous_price # rs[a].current_price
                        /\ rs[a].change_amount = rs[a].current_price - rs[a].previous_price
             /\ \A id \in DOMAIN products :
                    LET pair == LastPair(prices, id, cutoff)
                    IN  (pair # <<>> /\ prices[pair[1]].price # prices[pair[2]].price)
                          => \E a \in 1..Len(rs) : rs[a].product_id = id)

\* The changes of a window that holds the series 10, 12, 15 of one identity
\* were asked for: the one record is 12 -> 15.
C19_Witness ==
    /\ call.op = "changes"
    /\ ~call.ret.raised
    /\ \E id \in DOMAIN products :
          /\ get_price_history(prices, id, call.days, clock) = <<1, 2, 3>>
          /\ prices[1].price = 10 /\ prices[2].price = 12 /\ prices[3].price = 15
    /\ Len(call.ret.results) = 1
    /\ call.ret.results[1].previous_price = 12
    /\ call.ret.results[1].current_price = 15

\* C20 as claimed: get_price_changes does not fail when the previous price
\* of an identity is zero and its current price differs; it returns the
\* records of the other identities.
C20_ZeroPreviousPriceSkipped ==
    [](call.op = "changes" =>
         /\ ~call.ret.raised
         /\ \A id \in DOMAIN products :
                LET pair == LastPair(prices, id, clock - call.days)
                IN  (/\ pair # <<>>
                     /\ prices[pair[1]].price # prices[pair[2]].price
                     /\ prices[pair[1]].price # 0)
                      => \E a \in 1..Len(call.ret.results) :
                            call.ret.results[a].product_id = id)

\* C21: in what get_price_changes returns, the absolute change_amount of a
\* record is at least that of the record after it, for drops and rises alike.
C21_ChangesOrderedByMagnitude ==
    [](( call.op = "changes" /\ ~call.ret.raised) =>
         \A k \in 1..(Len(call.ret.results) - 1) :
            LET a == call.ret.results[k].change_amount
                b == call.ret.results[k + 1].change_amount
            IN  (IF a < 0 THEN 0 - a ELSE a) >= (IF b < 0 THEN 0 - b ELSE b))

\* Two records were returned: the drop of 5 of the second identity before
\* the rise of 2 of the first.
C21_Witness ==
    /\ call.op = "changes"
    /\ ~call.ret.raised
    /\ Len(call.ret.results) = 2
    /\ call.ret.results[1].product_id = 2
    /\ call.ret.results[1].change_amount = -5
    /\ call.ret.results[2].product_id = 1
    /\ call.ret.results[2].change_amount = 2

C24_NotFoundWhetherRedirectedOrNot ==
    [][( /\ call'.op = "health_check"
         /\ ~call'.resp.raised
         /\ call'.resp.code = StatusNotFound )
       => /\ call'.ret = "not_found"
          /\ call'.id \in DOMAIN products'
          /\ startswith(products'[call'.id].name, Marker)
      ]_vars

\* C25: after a health check that found the identity's own URL returning
\* 404, the identity's name starts with the marker and holds it once, and
\* the run's not_found counter is one more than before the check.
C25_MarkedOnceCountedEachTime ==
    [][( /\ call'.op = "health_check"
         /\ ~call'.resp.raised
         /\ call'.resp.code = StatusNotFound
         /\ call'.resp.final = call'.url )
       => LET name == products'[call'.id].name
          IN  /\ startswith(name, Marker)
              /\ Cardinality({i \in 1..Len(name) : name[i] = Marker}) = 1
              /\ results'.not_found = results.not_found + 1
      ]_vars

\* The check found 404 for an identity whose name was marked already.
C25_Witness ==
    /\ call.op = "health_check"
    /\ call.ret = "not_found"
    /\ startswith(call.name, Marker)
    /\ products[call.id].name = call.name
    /\ results.not_found = 1

\* C26: an item of a collection run appends no observation to an identity
\* whose name carries the marker.
C26_DiscontinuedNotCollected ==
    [][ call'.op = "collect_item"
        => \A id \in DOMAIN products :
              startswith(products[id].name, Marker)
              => {i \in DOMAIN prices' : prices'[i].product_id = id}
                   = {i \in DOMAIN prices : prices[i].product_id = id}
      ]_vars

\* C27: no step of a health-check run changes the price rows.
C27_HealthRunLeavesObservations ==
    [][ call'.op \in {"health_start", "health_check", "health_return"}
        => prices' = prices ]_vars

\* A check marked an identity that owns an observation.
C27_Witness ==
    /\ call.op = "health_check"
    /\ call.ret = "not_found"
    /\ \E i \in DOMAIN prices : prices[i].product_id = call.id

\* C28: a check whose response is 200 at the stored URL is classified
\* active, one whose request failed or whose response at the stored URL has
\* another status than 200 and 404 is classified error; neither changes a
\* row of the store, the error case appends exactly one issue, of kind
\* error, and the active case none.
C28_ActiveAndErrorMutateNothing ==
    [][( /\ call'.op = "health_check"
         /\ \/ call'.resp.raised
            \/ /\ call'.resp.final = call'.url
               /\ call'.resp.code # StatusNotFound )
       => LET active == ~call'.resp.raised /\ call'.resp.code = StatusOK
          IN  /\ call'.ret = IF active THEN "active" ELSE "error"
              /\ products' = products
              /\ prices' = prices
              /\ suppliers' = suppliers
              /\ results'.issues =
                    IF active THEN results.issues
                    ELSE Append(results.issues,
                                [product_id |-> call'.id, issue |-> "error"])
      ]_vars

\* A check of a stored identity ended in error and its issue is listed.
C28_Witness ==
    /\ call.op = "health_check"
    /\ call.ret = "error"
    /\ ~call.resp.raised
    /\ call.id \in DOMAIN products
    /\ results.errors = 1
    /\ results.issues = <<[product_id |-> call.id, issue |-> "error"]>>

\* C29: a check whose final URL differs from the stored one is classified
\* redirect, stores the final URL, appends one redirect issue, and leaves
\* the identity's id, supplier, sku and name as they were.
C29_RedirectStoresFinalUrl ==
    [][( /\ call'.op = "health_check"
         /\ ~call'.resp.raised
         /\ call'.resp.final # call'.url )
       => LET id == call'.id
          IN  /\ call'.ret = "redirect"
              /\ DOMAIN products' = DOMAIN products
              /\ products'[id].product_url = call'.resp.final
              /\ products'[id].supplier_id = products[id].supplier_id
              /\ products'[id].sku = products[id].sku
              /\ products'[id].name = products[id].name
              /\ results'.redirected = results.redirected + 1
              /\ results'.issues =
                    Append(results.issues, [product_id |-> id, issue |-> "redirect"])
      ]_vars

\* A response with status 404 came from another URL than the stored one,
\* which now is the stored URL.
C29_Witness ==
    /\ call.op = "health_check"
    /\ call.ret = "redirect"
    /\ call.resp.code = StatusNotFound
    /\ call.url = U1
    /\ products[call.id].product_url = U1b

\* What a strategy yields for the element its selector finds, the value that
\* means nothing usable when there is none.
NoYield(field) == IF field = "price" THEN Zero ELSE None

Yield(field, element) ==
    IF ~element.found THEN NoYield(field)
    ELSE CASE field = "price" ->
                 IF price_text(element) # <<>> THEN clean_price(price_text(element))
                 ELSE Zero
           [] field = "sku" -> search_digits(strip(element.text))
           [] field = "description" -> Limited(clean_text(element.text))
           [] OTHER -> clean_text(element.text)

Default(field) ==
    IF field = "price" THEN Zero ELSE IF field = "unit" THEN default_unit ELSE None

\* The value of the first strategy with a usable yield, the default when
\* there is none; the search of the page's text is the last strategy of price.
FirstYield(field, elements, matches) ==
    LET usable == {i \in 1..Len(elements) :
                      Yield(field, elements[i]) # NoYield(field)}
        reasonable == {k \in 1..Len(matches) : Reasonable(clean_price(matches[k]))}
    IN  IF usable # {} THEN Yield(field, elements[Min(usable)])
        ELSE IF reasonable # {} THEN clean_price(matches[Min(reasonable)])
        ELSE Default(field)

\* C30: for each of name, price, sku, unit, brand and description, the value
\* the extractor returns is that of the first strategy, in list order, whose
\* yield is not empty and is valid, an element with empty content being
\* passed over; the default is returned only when no strategy has one.
C30_FirstUsableStrategyWins ==
    [](call.op = "extract"
       => call.ret = FirstYield(call.field, call.elements, call.matches))

\* The text holds the substring: some run of its characters equals it.
Contains(text, substring) ==
    \E i \in 0..(Len(text) - Len(substring)) :
        SubSeq(text, i + 1, i + Len(substring)) = substring

\* The identity a returned dict is about.
IdentityOf(r) ==
    CHOOSE id \in DOMAIN products :
        products[id].sku = r.sku /\ suppliers[products[id].supplier_id] = r.supplier

\* C22: get_price_comparison returns one dict for each identity whose name
\* contains the substring and that has an observation, and no other; each
\* holds the identity's latest observation; the prices ascend.
C22_CompareExactlyTheContaining ==
    [](call.op = "compare" =>
         LET rs == call.ret
             expected == {id \in DOMAIN products :
                             /\ Contains(products[id].name, call.pattern)
                             /\ \E i \in DOMAIN prices : prices[i].product_id = id}
         IN  /\ Len(rs) = Cardinality(expected)
             /\ {IdentityOf(rs[k]) : k \in 1..Len(rs)} = expected
             /\ \A k \in 1..Len(rs) :
                   LET rows == {i \in DOMAIN prices :
                                   prices[i].product_id = IdentityOf(rs[k])}
                   IN  /\ rs[k].price = prices[Newest(prices, rows)].price
                       /\ rs[k].scraped_at = prices[Newest(prices, rows)].scraped_at
             /\ \A k \in 1..(Len(rs) - 1) : rs[k].price <= rs[k + 1].price)

\* C31: for a page that was fetched, has a product name and has no
\* breadcrumbs, scrape_product returns a Product, and its category is None.
C31_NoBreadcrumbsCategoryNone ==
    [][( /\ call'.op = "collect_item"
         /\ call'.fetch = "ok"
         /\ ~call'.no_name
         /\ ~call'.breadcrumbs )
       => /\ call'.sku # None
          /\ call'.category = None
      ]_vars

\* C32: clean_price returns a number for every text, never a negative one,
\* and returns 0.0 when what is left of the text after every character
\* other than digits and the point is removed holds no digit or holds
\* several points.
C32_CleanPriceTotalNonNegative ==
    [](call.op = "clean_price" =>
         LET left == SelectSeq(call.text, IsDigitOrDot)
             points == Cardinality({i \in 1..Len(left) : left[i] = "."})
             unparsable == points > 1 \/ points = Len(left)
         IN  /\ call.ret.num \in Nat
             /\ call.ret.den \in Nat \ {0}
             /\ unparsable => call.ret = Zero)

\* "7.7.": two points are left, and 0.0 was returned.
C32_Witness ==
    /\ call.op = "clean_price"
    /\ call.text = <<"7", ".", "7", ".">>
    /\ call.ret = Zero

\* C33: while a collection run is going, successful + failed is the number
\* of items processed, errors has one entry for each failed item, the k-th
\* entry holding the URL of the k-th item that failed; the run returns with
\* successful + failed = total = the length of the input list.
C33_RunReportAddsUp ==
    /\ [](cPc = "running" =>
            LET failing == {i \in 1..cIdx : cLog[i].cause # "stored"}
            IN  /\ stats.successful + stats.failed = cIdx
                /\ Len(stats.errors) = stats.failed
                /\ stats.failed = Cardinality(failing)
                /\ \A k \in 1..Len(stats.errors) :
                      \E i \in failing :
                          /\ Cardinality({j \in failing : j <= i}) = k
                          /\ stats.errors[k].url = cUrls[i])
    /\ [][(cPc = "running" /\ cPc' = "idle")
          => /\ stats.successful + stats.failed = stats.total
             /\ stats.total = Len(cUrls)]_vars

\* A run of two items is about to return: the first was stored, the second
\* could not be scraped and its URL is in the one error entry.
C33_Witness ==
    /\ cPc = "running"
    /\ Len(cUrls) = 2 /\ cIdx = 2
    /\ cLog[1].cause = "stored"
    /\ cLog[2].cause = "not_scraped"
    /\ stats.successful = 1 /\ stats.failed = 1 /\ stats.total = 2
    /\ Len(stats.errors) = 1
    /\ stats.errors[1].url = cUrls[2]

\* C34: while a health-check run is going, the four counters add up to the
\* number of identities checked so far and the issues to the checks that
\* were not active; the identities to check are the stored ones, each once;
\* the run returns when all were checked, with active + redirected +
\* not_found + errors = total = the number of stored identities.
C34_HealthReportAddsUp ==
    /\ [](hPc = "running" =>
            /\ results.active + results.redirected + results.not_found
                 + results.errors = hIdx
            /\ Len(results.issues)
                 = results.redirected + results.not_found + results.errors
            /\ results.total = Len(hList)
            /\ {hList[i] : i \in 1..Len(hList)} = DOMAIN products
            /\ \A i, j \in 1..Len(hList) : hList[i] = hList[j] => i = j)
    /\ [][(hPc = "running" /\ hPc' = "idle")
          => /\ hIdx = Len(hList)
             /\ results.active + results.redirected + results.not_found
                  + results.errors = results.total
             /\ results.total = Cardinality(DOMAIN products)]_vars

\* The run over a store of one identity is about to return: its check found
\* a redirect, counted and listed once.
C34_Witness ==
    /\ hPc = "running"
    /\ Len(hList) = 1 /\ hIdx = 1
    /\ DOMAIN products = {hList[1]}
    /\ results.total = 1
    /\ results.redirected = 1
    /\ results.active = 0 /\ results.not_found = 0 /\ results.errors = 0
    /\ Len(results.issues) = 1
    /\ results.issues[1].product_id = hList[1]

\* C35: every price row refers to a product row that exists, whatever the
\* ids a merge was called with.
C35_ObservationsHaveAnOwner ==
    \A i \in DOMAIN prices : prices[i].product_id \in DOMAIN products

\* C36: no step of a collection run or of a health-check run takes the
\* marker off the name of an identity that carries it.
C36_MarkerStays ==
    [][call'.op # "merge"
       => \A id \in DOMAIN products \cap DOMAIN products' :
             startswith(products[id].name, Marker)
             => startswith(products'[id].name, Marker)]_vars

\* C37: the URL <<"ecoply-structural", "101">> is stored only by a health
\* check that followed a redirect to it; no item of a later collection run,
\* whose input list holds the URLs as they were, replaces it.
C37_RedirectCorrectionStays ==
    [][call'.op = "collect_item"
       => \A id \in DOMAIN products \cap DOMAIN products' :
             products[id].product_url = U1b => products'[id].product_url = U1b]_vars

\* C38: when the two runs interleave, what a health check writes to an
\* identity is computed from the row as it is stored at that moment: the
\* name it leaves is the stored name, with the marker put before it if the
\* check marked it, and a URL is replaced only when the URL that was
\* checked is the stored one.
C38_NoLostUpdate ==
    [][(call'.op = "health_check" /\ call'.id \in DOMAIN products)
       => LET p == products[call'.id]
              q == products'[call'.id]
          IN  /\ q.name \in {p.name, <<Marker>> \o p.name}
              /\ q.product_url # p.product_url => call'.url = p.product_url
      ]_vars

\* C39: find_duplicate_products returns no dict: no two product rows share a
\* supplier and a sku, whatever resolve calls were made, for one supplier or
\* for several that use the same sku.
C39_NoDuplicatesReported ==
    [](call.op = "find_duplicates" => call.ret = {})

====
